---- MODULE Spec2Model ----
(***************************************************************************)
(* Model of the `openshift start` bootstrap (pkg/cmd/server/start.go):     *)
(* role resolution, address negotiation (defaultMasterAddress), the store  *)
(* readiness poll (getEtcdClient), trust bootstrap and component launch.   *)
(*                                                                         *)
(* Strings that the code formats and parses again (host:port, URLs) are    *)
(* sequences of tokens, e.g. <<"https", "://", "10.0.0.5", ":", "8443">>;  *)
(* flagtypes.Addr.Set parses such a sequence back into scheme, host, port. *)
(***************************************************************************)
EXTENDS Integers, Sequences, FiniteSets, TLC

VARIABLES
    args,          \* positional arguments handed to start
    cfg,           \* *config: the four address flags
    cfg0,          \* cfg as it was when start was entered (history)
    pc,            \* position of start
    startEtcd, startNode, startMaster, startKube,   \* locals of start
    err,           \* error returned by start ("" while none)
    localIP,       \* result of util.DefaultLocalIP4 ("" while not called)
    discoveries,   \* number of calls of util.DefaultLocalIP4
    i,             \* loop index of the running getEtcdClient
    probes,        \* etcdClient.Get calls of the running getEtcdClient
    sleeps,        \* time.Sleep calls of the running getEtcdClient
    probeErr,      \* outcome of the last etcdClient.Get
    gates,         \* number of getEtcdClient invocations in this run
    gatesPassed,   \* number of getEtcdClient invocations that returned a client
    probed,        \* an etcdClient.Get was issued in this run
    issued,        \* identities minted from the CA, in order
    caLoaded,      \* crypto.InitCA succeeded
    roots,         \* trust-root pool handed to AuthConfig ("nil" or "pool")
    osmaster,      \* the client hosts/identities held by origin.MasterConfig
    launched,      \* components launched, in order
    runs           \* applications of defaultMasterAddress (negotiation spec)

vars == <<args, cfg, cfg0, pc, startEtcd, startNode, startMaster, startKube,
          err, localIP, discoveries, i, probes, sleeps, probeErr, gates,
          gatesPassed, probed, issued, caLoaded, roots, osmaster, launched, runs>>

----------------------------------------------------------------------------
(* Bounds and program constants *)

\* how many times the negotiation specification re-applies defaultMasterAddress
MaxRuns == 3

\* `if i > 100` in getEtcdClient
RetryLimit == 100

MasterDefaultPort == 8443
EtcdDefaultPort == 4001

----------------------------------------------------------------------------
(* strconv.Itoa / strconv.Atoi on the ports that occur *)

PortStrings == {"4001", "8080", "8443", "9443"}

Atoi(s) ==
    CASE s = "4001" -> 4001
      [] s = "8080" -> 8080
      [] s = "8443" -> 8443
      [] s = "9443" -> 9443

Itoa(n) == CHOOSE s \in PortStrings : Atoi(s) = n

\* net.JoinHostPort(host, port)
JoinHostPort(host, port) == <<host, ":", port>>

----------------------------------------------------------------------------
(* flagtypes.Addr *)

urlPrefixes == {"http", "https", "tcp"}

HasPrefix(value) ==
    Len(value) >= 2 /\ value[1] \in urlPrefixes /\ value[2] = "://"

\* (*Addr).Set: parse value into scheme, host and port, filling the scheme
\* and the port from the defaults when the value has none; mark Provided.
Set(a, value) ==
    LET isPrefixed == HasPrefix(value)
        scheme     == IF isPrefixed THEN value[1] ELSE a.DefaultScheme
        hostport   == IF isPrefixed THEN SubSeq(value, 3, Len(value)) ELSE value
        hasPort    == Len(hostport) = 3 /\ hostport[2] = ":"
        host       == IF Len(hostport) = 0 THEN "" ELSE hostport[1]
        port       == IF hasPort THEN Atoi(hostport[3]) ELSE a.DefaultPort
    IN  [a EXCEPT !.Provided = TRUE, !.Value = value,
                  !.Scheme = scheme, !.Host = host, !.Port = port]

\* Addr.Default: Set the default value, then clear Provided.
Default(a) == [Set(a, a.Value) EXCEPT !.Provided = FALSE]

\* Addr.URL.String()
URLString(a) == <<a.Scheme, "://", a.Host, ":", Itoa(a.Port)>>

Addr(value, scheme, port) ==
    [Value |-> value, DefaultScheme |-> scheme, DefaultPort |-> port,
     Provided |-> FALSE, Scheme |-> "", Host |-> "", Port |-> 0]

\* cfg := &config{...} in NewCommandStartServer
NewConfig ==
    [MasterAddr     |-> Default(Addr(<<"localhost", ":", "8443">>, "https", MasterDefaultPort)),
     BindAddr       |-> Default(Addr(<<"0.0.0.0", ":", "8443">>, "https", MasterDefaultPort)),
     EtcdAddr       |-> Default(Addr(<<"0.0.0.0", ":", "4001">>, "http", EtcdDefaultPort)),
     KubernetesAddr |-> Default(Addr(<< >>, "https", MasterDefaultPort))]

\* flag.Var(&cfg.X, ...): a flag given on the command line calls Set
NoFlag == << >>
ParseFlag(a, value) == IF value = NoFlag THEN a ELSE Set(a, value)

ListenFlags == {NoFlag, <<"0.0.0.0", ":", "9443">>,
                <<"http", "://", "0.0.0.0", ":", "8080">>}
MasterFlags == {NoFlag, <<"203.0.113.9", ":", "9443">>,
                <<"http", "://", "10.0.0.5", ":", "8080">>, <<"master.example">>}
EtcdFlags == {NoFlag, <<"198.51.100.7", ":", "4001">>}
KubernetesFlags == {NoFlag, <<"192.0.2.1", ":", "8443">>}

ParseFlags(listen, master, etcd, kube) ==
    [MasterAddr     |-> ParseFlag(NewConfig.MasterAddr, master),
     BindAddr       |-> ParseFlag(NewConfig.BindAddr, listen),
     EtcdAddr       |-> ParseFlag(NewConfig.EtcdAddr, etcd),
     KubernetesAddr |-> ParseFlag(NewConfig.KubernetesAddr, kube)]

\* argument lists tried
ArgLists == {<< >>, <<"master">>, <<"node">>, <<"etcd">>, <<"master", "node">>}

\* outcomes of util.DefaultLocalIP4: an address, or NoIP for an error
NoIP == ""
LocalIPs == {"10.0.0.5", "192.168.1.20"}

----------------------------------------------------------------------------
(* defaultMasterAddress *)

\* the port of the synthesized master address: the bind port if --listen was
\* given, else the port of the (default) master address
masterPortIgnoresListen(c) == c.MasterAddr.Port

masterPort(c) ==
    IF c.BindAddr.Provided THEN c.BindAddr.Port ELSE c.MasterAddr.Port

\* the scheme of the synthesized master address, chosen the same way
masterScheme(c) ==
    IF c.BindAddr.Provided THEN c.BindAddr.Scheme ELSE c.MasterAddr.Scheme

\* etcdAddr when the master address was discovered
etcdFromLocalUsesListenHost(c, addr) ==
    JoinHostPort(c.BindAddr.Host, Itoa(c.EtcdAddr.DefaultPort))

etcdFromLocal(c, addr) ==
    JoinHostPort(addr, Itoa(c.EtcdAddr.DefaultPort))

\* etcdAddr when the master address was given
etcdFromMasterKeepsPort(c) ==
    JoinHostPort(c.MasterAddr.Host, Itoa(c.MasterAddr.Port))

etcdFromMaster(c) ==
    JoinHostPort(c.MasterAddr.Host, Itoa(c.EtcdAddr.DefaultPort))

defaultMasterAddressAlwaysDiscovers(c, addr) ==
    IF addr = NoIP THEN
        [cfg |-> c, err |-> "AddressDiscoveryFailed", discovered |-> 1]
    ELSE
        LET masterAddr == <<masterScheme(c), "://">> \o JoinHostPort(addr, Itoa(masterPort(c)))
            c1 == [c EXCEPT !.MasterAddr = Set(@, masterAddr)]
        IN  [cfg |-> [c1 EXCEPT !.EtcdAddr = Set(@, etcdFromLocal(c1, addr))],
             err |-> "", discovered |-> 1]

\* addr is what util.DefaultLocalIP4 returns if it is called (NoIP: an error).
\* The result carries the configuration afterwards, the error, and whether
\* util.DefaultLocalIP4 was called.
defaultMasterAddress(c, addr) ==
    IF ~c.MasterAddr.Provided THEN
        IF addr = NoIP THEN
            [cfg |-> c, err |-> "AddressDiscoveryFailed", discovered |-> 1]
        ELSE
            LET masterAddr == <<masterScheme(c), "://">>
                                  \o JoinHostPort(addr, Itoa(masterPort(c)))
                c1 == [c EXCEPT !.MasterAddr = Set(@, masterAddr)]
                c2 == IF ~c1.EtcdAddr.Provided
                      THEN [c1 EXCEPT !.EtcdAddr = Set(@, etcdFromLocal(c1, addr))]
                      ELSE c1
            IN  [cfg |-> c2, err |-> "", discovered |-> 1]
    ELSE IF ~c.EtcdAddr.Provided THEN
        [cfg |-> [c EXCEPT !.EtcdAddr = Set(@, etcdFromMaster(c))],
         err |-> "", discovered |-> 0]
    ELSE
        [cfg |-> c, err |-> "", discovered |-> 0]

----------------------------------------------------------------------------
(* start: role resolution *)

InvalidPlan ==
    [err |-> "InvalidArguments", startEtcd |-> FALSE, startNode |-> FALSE,
     startMaster |-> FALSE, negotiate |-> FALSE]

AllInOnePlan(c) ==
    [err |-> "", startEtcd |-> ~c.EtcdAddr.Provided, startNode |-> TRUE,
     startMaster |-> TRUE, negotiate |-> TRUE]

MasterPlan(c) ==
    [err |-> "", startEtcd |-> ~c.EtcdAddr.Provided, startNode |-> FALSE,
     startMaster |-> TRUE, negotiate |-> TRUE]

NodePlan ==
    [err |-> "", startEtcd |-> FALSE, startNode |-> TRUE,
     startMaster |-> FALSE, negotiate |-> TRUE]

\* the all-in-one role starts the embedded store whatever --etcd says
RolePlanAlwaysEtcd(a, c) ==
    IF Len(a) > 1 THEN InvalidPlan
    ELSE IF Len(a) = 1 THEN
        CASE a[1] = "master" -> MasterPlan(c)
          [] a[1] = "node" -> NodePlan
          [] OTHER -> InvalidPlan
    ELSE [AllInOnePlan(c) EXCEPT !.startEtcd = TRUE]

\* the length check is missing: the first token alone decides
RolePlanFirstToken(a, c) ==
    IF Len(a) >= 1 THEN
        CASE a[1] = "master" -> MasterPlan(c)
          [] a[1] = "node" -> NodePlan
          [] OTHER -> InvalidPlan
    ELSE AllInOnePlan(c)

\* startEtcd is read after defaultMasterAddress has Set the store address
RolePlanLateEtcd(a, c) ==
    LET late == defaultMasterAddress(c, "10.0.0.5").cfg
    IN  IF Len(a) > 1 THEN InvalidPlan
        ELSE IF Len(a) = 1 THEN
            CASE a[1] = "master" -> MasterPlan(late)
              [] a[1] = "node" -> NodePlan
              [] OTHER -> InvalidPlan
        ELSE AllInOnePlan(late)

\* the node role does not call defaultMasterAddress
RolePlanNodeSkipsNegotiation(a, c) ==
    IF Len(a) > 1 THEN InvalidPlan
    ELSE IF Len(a) = 1 THEN
        CASE a[1] = "master" -> MasterPlan(c)
          [] a[1] = "node" -> [NodePlan EXCEPT !.negotiate = FALSE]
          [] OTHER -> InvalidPlan
    ELSE AllInOnePlan(c)

\* The argument switch of start: which of etcd, master and node are selected,
\* and whether defaultMasterAddress is called.
RolePlan(a, c) ==
    IF Len(a) > 1 THEN InvalidPlan
    ELSE IF Len(a) = 1 THEN
        CASE a[1] = "master" -> MasterPlan(c)
          [] a[1] = "node" -> NodePlan
          [] OTHER -> InvalidPlan
    ELSE AllInOnePlan(c)

\* `if startMaster {` ... `if startNode {` ... `select {}`
\* the node role launches without waiting for the store
AfterResolveSkipsGate(sm, sn) ==
    IF sm THEN "prelude" ELSE IF sn THEN "launchNode" ELSE "select"

\* the master role polls the store before the embedded store is started
AfterResolveSkipsEtcd(sm, sn) ==
    IF sm THEN "masterGate" ELSE IF sn THEN "nodeGate" ELSE "select"

AfterResolve(sm, sn) ==
    IF sm THEN "prelude" ELSE IF sn THEN "nodeGate" ELSE "select"

\* the node stage reuses the master's client instead of calling getEtcdClient
AfterMasterSkipsGate(sn) == IF sn THEN "launchNode" ELSE "select"

\* start returns nil once the master components are launched
AfterMasterReturns(sn) == IF sn THEN "nodeGate" ELSE "returned"

AfterMaster(sn) == IF sn THEN "nodeGate" ELSE "select"

\* cfg.KubernetesAddr is set from the master address as it was before
\* defaultMasterAddress ran
KubeAddrBeforeNegotiation(before, after) ==
    IF ~after.KubernetesAddr.Provided THEN before.MasterAddr ELSE after.KubernetesAddr

\* `if startKube { cfg.KubernetesAddr = cfg.MasterAddr }`; before and after
\* are cfg before and after defaultMasterAddress
KubeAddr(before, after) ==
    IF ~after.KubernetesAddr.Provided THEN after.MasterAddr ELSE after.KubernetesAddr

Resolve ==
    /\ pc = "start"
    /\ \E addr \in LocalIPs \cup {NoIP} :
        LET plan == RolePlan(args, cfg)
            neg  == IF plan.negotiate
                    THEN defaultMasterAddress(cfg, addr)
                    ELSE [cfg |-> cfg, err |-> "", discovered |-> 0]
            kube == ~neg.cfg.KubernetesAddr.Provided
        IN  /\ startEtcd' = plan.startEtcd
            /\ startNode' = plan.startNode
            /\ startMaster' = plan.startMaster
            /\ discoveries' = discoveries + neg.discovered
            /\ localIP' = IF neg.discovered = 1 THEN addr ELSE localIP
            /\ IF plan.err # "" THEN
                   /\ err' = plan.err
                   /\ pc' = "returned"
                   /\ UNCHANGED <<cfg, startKube>>
               ELSE IF neg.err # "" THEN
                   /\ err' = neg.err
                   /\ pc' = "returned"
                   /\ cfg' = neg.cfg
                   /\ UNCHANGED startKube
               ELSE
                   /\ startKube' = kube
                   /\ cfg' = [neg.cfg EXCEPT !.KubernetesAddr = KubeAddr(cfg, neg.cfg)]
                   /\ pc' = AfterResolve(plan.startMaster, plan.startNode)
                   /\ UNCHANGED err
    /\ UNCHANGED <<args, cfg0, i, probes, sleeps, probeErr, gates, gatesPassed, probed,
                   issued, caLoaded, roots, osmaster, launched, runs>>

----------------------------------------------------------------------------
(* start: embedded store and the readiness poll *)

\* `if startEtcd { ... etcdConfig.Run() }`
RunEtcd ==
    /\ pc = "prelude"
    /\ launched' = IF startEtcd THEN Append(launched, "etcd") ELSE launched
    /\ pc' = "masterGate"
    /\ UNCHANGED <<args, cfg, cfg0, startEtcd, startNode, startMaster, startKube,
                   err, localIP, discoveries, i, probes, sleeps, probeErr, gates, gatesPassed,
                   probed, issued, caLoaded, roots, osmaster, runs>>

\* getEtcdClient up to the loop: the client is made and i := 0
NewClient ==
    /\ pc \in {"masterGate", "nodeGate"}
    /\ pc' = IF pc = "masterGate" THEN "masterPoll" ELSE "nodePoll"
    /\ gates' = gates + 1
    /\ i' = 0
    /\ probes' = 0
    /\ sleeps' = 0
    /\ probeErr' = "none"
    /\ UNCHANGED <<args, cfg, cfg0, startEtcd, startNode, startMaster, startKube,
                   err, localIP, discoveries, gatesPassed, probed, issued, caLoaded, roots,
                   osmaster, launched, runs>>

ProbeOutcomes == {"nil", "notFound", "transport"}

\* "key not found" is taken for a failed probe
PollStepNotFoundRetries(idx, e) ==
    IF e = "nil" THEN "break"
    ELSE IF idx > RetryLimit THEN "fail"
    ELSE "sleep"

\* the bound is tested with >= instead of >
PollStepOffByOne(idx, e) ==
    IF e = "nil" \/ e = "notFound" THEN "break"
    ELSE IF idx >= RetryLimit THEN "fail"
    ELSE "sleep"

\* what one iteration of the loop does after etcdClient.Get returned e
PollStep(idx, e) ==
    IF e = "nil" \/ e = "notFound" THEN "break"
    ELSE IF idx > RetryLimit THEN "fail"
    ELSE "sleep"

\* one iteration of the loop of getEtcdClient; the loop's locals end with it
Probe ==
    /\ pc \in {"masterPoll", "nodePoll"}
    /\ \E e \in ProbeOutcomes :
        LET step == PollStep(i, e)
        IN  /\ probeErr' = e
            /\ probed' = TRUE
            /\ CASE step = "break" ->
                      /\ pc' = IF pc = "masterPoll" THEN "storage" ELSE "launchNode"
                      /\ i' = 0
                      /\ probes' = 0
                      /\ sleeps' = 0
                      /\ gatesPassed' = gatesPassed + 1
                      /\ UNCHANGED err
                 [] step = "fail" ->
                      /\ pc' = "returned"
                      /\ err' = "StoreUnreachable"
                      /\ probes' = probes + 1
                      /\ UNCHANGED <<i, sleeps, gatesPassed>>
                 [] OTHER ->
                      /\ probes' = probes + 1
                      /\ sleeps' = sleeps + 1
                      /\ i' = i + 1
                      /\ UNCHANGED <<pc, err, gatesPassed>>
    /\ UNCHANGED <<args, cfg, cfg0, startEtcd, startNode, startMaster, startKube,
                   localIP, discoveries, gates, issued, caLoaded, roots,
                   osmaster, launched, runs>>

----------------------------------------------------------------------------
(* start: master role *)

NoClient == [Host |-> << >>, Identity |-> ""]

NoMaster ==
    [TLS |-> FALSE, MasterAddr |-> << >>, KubernetesAddr |-> << >>,
     KubeClientConfig |-> NoClient, OSClientConfig |-> NoClient,
     DeployerOSClientConfig |-> NoClient]

\* the master listens on TLS when --listen says https
TLSFromListen(c) == c.BindAddr.Scheme = "https"

\* MasterConfig.TLS
TLS(c) == c.MasterAddr.Scheme = "https"

StorageOutcomes == {"ok", "originHelper", "kubeHelper"}

\* origin.NewEtcdHelper, kmaster.NewEtcdHelper, then osmaster := &origin.MasterConfig{...}
\* and its KubeClientConfig
SetupStorage ==
    /\ pc = "storage"
    /\ \E o \in StorageOutcomes :
        IF o # "ok" THEN
            /\ err' = "StorageSetupFailed"
            /\ pc' = "returned"
            /\ UNCHANGED osmaster
        ELSE
            /\ osmaster' =
                 [TLS |-> TLS(cfg),
                  MasterAddr |-> URLString(cfg.MasterAddr),
                  KubernetesAddr |-> URLString(cfg.KubernetesAddr),
                  KubeClientConfig |->
                      [Host |-> IF startKube THEN URLString(cfg.MasterAddr)
                                ELSE URLString(cfg.KubernetesAddr),
                       Identity |-> ""],
                  OSClientConfig |-> NoClient,
                  DeployerOSClientConfig |-> NoClient]
            /\ pc' = "trust"
            /\ UNCHANGED err
    /\ UNCHANGED <<args, cfg, cfg0, startEtcd, startNode, startMaster, startKube,
                   localIP, discoveries, i, probes, sleeps, probeErr, gates, gatesPassed,
                   probed, issued, caLoaded, roots, launched, runs>>

\* the calls of the TLS branch, in order: crypto.InitCA, ca.MakeServerCert and
\* the ca.MakeClientConfig calls
TrustStepsAlwaysKube(kube) ==
    <<"ca", "master", "openshift-client", "openshift-deployer", "admin", "kube-client">>

TrustSteps(kube) ==
    <<"ca", "master", "openshift-client", "openshift-deployer", "admin">>
        \o (IF kube THEN <<"kube-client">> ELSE << >>)

InSeq(x, s) == \E k \in 1..Len(s) : s[k] = x

\* an error of the TLS branch is dropped and start goes on
TrustBootstrapIgnoresError ==
    /\ pc = "trust"
    /\ IF osmaster.TLS THEN
           \E failAt \in 0..Len(TrustSteps(startKube)) :
               LET steps == TrustSteps(startKube)
                   done  == IF failAt = 0 THEN steps ELSE SubSeq(steps, 1, failAt - 1)
                   tmpl  == URLString(cfg.MasterAddr)
               IN  /\ caLoaded' = InSeq("ca", done)
                   /\ issued' = IF done = << >> THEN << >> ELSE Tail(done)
                   /\ osmaster' =
                        [osmaster EXCEPT
                           !.OSClientConfig =
                               IF InSeq("openshift-client", done)
                               THEN [Host |-> tmpl, Identity |-> "openshift-client"] ELSE @,
                           !.DeployerOSClientConfig =
                               IF InSeq("openshift-deployer", done)
                               THEN [Host |-> tmpl, Identity |-> "openshift-deployer"] ELSE @,
                           !.KubeClientConfig =
                               IF InSeq("kube-client", done)
                               THEN [@ EXCEPT !.Identity = "kube-client"] ELSE @]
                   /\ IF failAt = 0 THEN
                          /\ roots' = "pool"
                          /\ pc' = "launchMaster"
                          /\ UNCHANGED err
                      ELSE
                          /\ pc' = "launchMaster"
                          /\ UNCHANGED <<roots, err>>
       ELSE
           /\ osmaster' =
                [osmaster EXCEPT
                   !.OSClientConfig = [Host |-> URLString(cfg.MasterAddr), Identity |-> ""],
                   !.DeployerOSClientConfig = [Host |-> URLString(cfg.MasterAddr), Identity |-> ""]]
           /\ pc' = "launchMaster"
           /\ UNCHANGED <<caLoaded, issued, roots, err>>
    /\ UNCHANGED <<args, cfg, cfg0, startEtcd, startNode, startMaster, startKube,
                   localIP, discoveries, i, probes, sleeps, probeErr, gates, gatesPassed,
                   probed, launched, runs>>

\* `if osmaster.TLS { ... } else { ... }`; failAt is the first call that
\* returns an error (0: none does)
TrustBootstrap ==
    /\ pc = "trust"
    /\ IF osmaster.TLS THEN
           \E failAt \in 0..Len(TrustSteps(startKube)) :
               LET steps == TrustSteps(startKube)
                   done  == IF failAt = 0 THEN steps ELSE SubSeq(steps, 1, failAt - 1)
                   tmpl  == URLString(cfg.MasterAddr)
               IN  /\ caLoaded' = InSeq("ca", done)
                   /\ issued' = IF done = << >> THEN << >> ELSE Tail(done)
                   /\ osmaster' =
                        [osmaster EXCEPT
                           !.OSClientConfig =
                               IF InSeq("openshift-client", done)
                               THEN [Host |-> tmpl, Identity |-> "openshift-client"] ELSE @,
                           !.DeployerOSClientConfig =
                               IF InSeq("openshift-deployer", done)
                               THEN [Host |-> tmpl, Identity |-> "openshift-deployer"] ELSE @,
                           !.KubeClientConfig =
                               IF InSeq("kube-client", done)
                               THEN [@ EXCEPT !.Identity = "kube-client"] ELSE @]
                   /\ IF failAt = 0 THEN
                          /\ roots' = "pool"
                          /\ pc' = "launchMaster"
                          /\ UNCHANGED err
                      ELSE
                          /\ err' = "TrustBootstrapFailed"
                          /\ pc' = "returned"
                          /\ UNCHANGED roots
       ELSE
           /\ osmaster' =
                [osmaster EXCEPT
                   !.OSClientConfig = [Host |-> URLString(cfg.MasterAddr), Identity |-> ""],
                   !.DeployerOSClientConfig = [Host |-> URLString(cfg.MasterAddr), Identity |-> ""]]
           /\ pc' = "launchMaster"
           /\ UNCHANGED <<caLoaded, issued, roots, err>>
    /\ UNCHANGED <<args, cfg, cfg0, startEtcd, startNode, startMaster, startKube,
                   localIP, discoveries, i, probes, sleeps, probeErr, gates, gatesPassed,
                   probed, launched, runs>>

KubeControllers ==
    <<"RunScheduler", "RunReplicationController", "RunEndpointController",
      "RunMinionController">>

OriginControllers ==
    <<"RunBuildController", "RunBuildImageChangeTriggerController",
      "RunDeploymentController", "RunDeploymentConfigController",
      "RunDeploymentConfigChangeController",
      "RunDeploymentImageChangeTriggerController">>

\* the control loops are started before the API listener
MasterLaunchLoopsFirst(kube) ==
    (IF kube THEN KubeControllers ELSE << >>) \o <<"RunAPI">>
        \o <<"StartRecording", "RunAssetServer">> \o OriginControllers

\* the control loops are started whether or not --kubernetes was given
MasterLaunchAlwaysKube(kube) ==
    <<"RunAPI">> \o KubeControllers
        \o <<"StartRecording", "RunAssetServer">> \o OriginControllers

\* everything start launches for the master role, in the order of the code
MasterLaunch(kube) ==
    <<"RunAPI">> \o (IF kube THEN KubeControllers ELSE << >>)
        \o <<"StartRecording", "RunAssetServer">> \o OriginControllers

\* osmaster.BuildClients() ... osmaster.RunDeploymentImageChangeTriggerController()
LaunchMaster ==
    /\ pc = "launchMaster"
    /\ launched' = launched \o MasterLaunch(startKube)
    /\ pc' = AfterMaster(startNode)
    /\ UNCHANGED <<args, cfg, cfg0, startEtcd, startNode, startMaster, startKube,
                   err, localIP, discoveries, i, probes, sleeps, probeErr, gates, gatesPassed,
                   probed, issued, caLoaded, roots, osmaster, runs>>

----------------------------------------------------------------------------
(* start: node role *)

NodeLaunchKubeletFirst == <<"EnsureVolumeDir", "EnsureDocker", "RunKubelet", "RunProxy">>

NodeLaunch == <<"EnsureVolumeDir", "EnsureDocker", "RunProxy", "RunKubelet">>

\* nodeConfig := &kubernetes.NodeConfig{...} ... nodeConfig.RunKubelet(), then
\* `select {}`
LaunchNode ==
    /\ pc = "launchNode"
    /\ launched' = launched \o NodeLaunch
    /\ pc' = "select"
    /\ UNCHANGED <<args, cfg, cfg0, startEtcd, startNode, startMaster, startKube,
                   err, localIP, discoveries, i, probes, sleeps, probeErr, gates, gatesPassed,
                   probed, issued, caLoaded, roots, osmaster, runs>>

----------------------------------------------------------------------------
(* The run of start *)

Configs ==
    {ParseFlags(l, m, e, k) :
        l \in ListenFlags, m \in MasterFlags, e \in EtcdFlags, k \in KubernetesFlags}

InitLocals ==
    /\ startEtcd = FALSE /\ startNode = FALSE /\ startMaster = FALSE
    /\ startKube = FALSE
    /\ err = ""
    /\ localIP = NoIP
    /\ discoveries = 0
    /\ i = 0 /\ probes = 0 /\ sleeps = 0 /\ probeErr = "none"
    /\ gates = 0 /\ gatesPassed = 0
    /\ probed = FALSE
    /\ issued = << >>
    /\ caLoaded = FALSE
    /\ roots = "nil"
    /\ osmaster = NoMaster
    /\ launched = << >>
    /\ runs = 0

Init ==
    /\ args \in ArgLists
    /\ cfg \in Configs
    /\ cfg0 = cfg
    /\ pc = "start"
    /\ InitLocals

Next ==
    \/ Resolve
    \/ RunEtcd
    \/ NewClient
    \/ Probe
    \/ SetupStorage
    \/ TrustBootstrap
    \/ LaunchMaster
    \/ LaunchNode

Spec == Init /\ [][Next]_vars

\* start is one sequential function: whenever it can take a step it does
FairSpec == Spec /\ WF_vars(Next)

----------------------------------------------------------------------------
(* defaultMasterAddress on its own, applied again to its own result *)

InitNeg ==
    /\ args = << >>
    /\ cfg \in Configs
    /\ cfg0 = cfg
    /\ pc = "negotiate"
    /\ InitLocals

Negotiate ==
    /\ pc = "negotiate"
    /\ runs < MaxRuns
    /\ \E addr \in LocalIPs \cup {NoIP} :
        LET neg == defaultMasterAddress(cfg, addr)
        IN  /\ cfg' = neg.cfg
            /\ err' = neg.err
            /\ discoveries' = discoveries + neg.discovered
            /\ localIP' = IF neg.discovered = 1 THEN addr ELSE localIP
    /\ runs' = runs + 1
    /\ UNCHANGED <<args, cfg0, pc, startEtcd, startNode, startMaster, startKube,
                   i, probes, sleeps, probeErr, gates, gatesPassed, probed, issued, caLoaded,
                   roots, osmaster, launched>>

NextNeg == Negotiate

SpecNeg == InitNeg /\ [][NextNeg]_vars

----------------------------------------------------------------------------
(* Properties *)

InvalidArgs ==
    \/ Len(args) >= 2
    \/ Len(args) = 1 /\ args[1] \notin {"master", "node"}

\* start has passed role resolution and address negotiation without an error
Resolved ==
    /\ pc \notin {"start", "negotiate"}
    /\ err \notin {"InvalidArguments", "AddressDiscoveryFailed"}

NodeComponents == {NodeLaunch[k] : k \in 1..Len(NodeLaunch)}

MasterComponents == {MasterLaunch(TRUE)[k] : k \in 1..Len(MasterLaunch(TRUE))}

InPoll == pc \in {"masterPoll", "nodePoll"}

\* C1 as stated: with zero positional arguments start selects the embedded
\* store, the master and the node, whatever address flags were given.
C1_AllInOneSelectsAllThree ==
    (args = << >> /\ pc # "start") =>
        startEtcd /\ startMaster /\ startNode

\* C1 amended: with zero positional arguments start selects the master and the
\* node, and the embedded store if and only if --etcd was not given; a run that
\* reaches `select {}` has launched exactly those.
C1_AllInOneSelection ==
    (args = << >> /\ pc # "start") =>
        /\ startMaster /\ startNode
        /\ startEtcd <=> ~cfg0.EtcdAddr.Provided
        /\ InSeq("etcd", launched) => ~cfg0.EtcdAddr.Provided
        /\ pc = "select" =>
              /\ InSeq("RunAPI", launched) /\ InSeq("RunKubelet", launched)
              /\ InSeq("etcd", launched) <=> ~cfg0.EtcdAddr.Provided

C1_Witness ==
    /\ args = << >> /\ pc = "select"
    /\ cfg0.EtcdAddr.Provided
    /\ ~InSeq("etcd", launched) /\ InSeq("RunAPI", launched)

\* C2: two or more tokens, or one token that is neither master nor node, make
\* start return InvalidArguments with the configuration untouched, no address
\* discovered, no store probe issued and nothing launched.
C2_InvalidArgumentsFailFirst ==
    (InvalidArgs /\ pc # "start") =>
        /\ pc = "returned" /\ err = "InvalidArguments"
        /\ cfg = cfg0
        /\ discoveries = 0 /\ localIP = NoIP
        /\ gates = 0 /\ ~probed
        /\ launched = << >> /\ issued = << >>

C2_Witness ==
    /\ Len(args) = 2 /\ args[1] = "master"
    /\ pc = "returned" /\ err = "InvalidArguments"

\* C3: `master` never launches a node component and starts the embedded store
\* iff --etcd was not given on the command line (although negotiation marks the
\* store address provided); `node` launches node components only.
C3_DisjointPlans ==
    /\ args = <<"master">> =>
          /\ ~startNode
          /\ \A k \in 1..Len(launched) : launched[k] \notin NodeComponents
          /\ InSeq("etcd", launched) => ~cfg0.EtcdAddr.Provided
          /\ (Resolved /\ pc # "prelude") =>
                (InSeq("etcd", launched) <=> ~cfg0.EtcdAddr.Provided)
          /\ pc = "select" =>
                \A k \in 1..Len(MasterLaunch(startKube)) :
                    InSeq(MasterLaunch(startKube)[k], launched)
    /\ args = <<"node">> =>
          /\ ~startEtcd /\ ~startMaster
          /\ \A k \in 1..Len(launched) : launched[k] \in NodeComponents
          /\ pc = "select" => launched = NodeLaunch

C3_Witness ==
    /\ args = <<"master">> /\ pc = "select"
    /\ ~cfg0.EtcdAddr.Provided /\ cfg.EtcdAddr.Provided
    /\ InSeq("etcd", launched) /\ InSeq("RunAPI", launched)

\* C4: the readiness poll always ends; a probe that returns nil or "key not
\* found" ends it at once with success and without a sleep; it returns
\* StoreUnreachable only after more than RetryLimit failed probes, and it never
\* goes on past that bound.
C4_PollTerminates ==
    /\ InPoll ~> ~InPoll
    /\ [](InPoll => /\ i <= RetryLimit + 1
                    /\ probes = i /\ sleeps = i
                    /\ i > 0 => probeErr = "transport")
    /\ [](err = "StoreUnreachable" =>
             /\ pc = "returned" /\ probeErr = "transport"
             /\ i > RetryLimit /\ probes = i + 1 /\ sleeps = i)
    /\ [][(InPoll /\ probeErr' \in {"nil", "notFound"}) =>
             /\ ~InPoll' /\ pc' # "returned" /\ err' = ""
             /\ sleeps' <= sleeps /\ probes' <= probes]_vars
    /\ [][(InPoll /\ probeErr' = "transport" /\ i > RetryLimit) =>
             err' = "StoreUnreachable"]_vars

C4_Witness ==
    /\ gates = 2 /\ pc = "returned" /\ err = "StoreUnreachable"
    /\ probes = RetryLimit + 2 /\ InSeq("RunAPI", launched)

NodeWithMasterOnly ==
    /\ args = <<"node">>
    /\ cfg0.MasterAddr.Provided /\ ~cfg0.EtcdAddr.Provided
    /\ pc # "start"

\* C5 as stated: node-only with --master and without --etcd resolves the store
\* address to the master's host and never invokes the readiness gate.
C5_NodeNeverProbes ==
    NodeWithMasterOnly =>
        /\ cfg.EtcdAddr.Host = cfg0.MasterAddr.Host
        /\ gates = 0 /\ ~probed

\* C5 amended: node-only with --master and without --etcd resolves the store
\* address to the master's host and starts no embedded store, and the readiness
\* gate is invoked once against that address: no node component is launched
\* before a probe has been issued.
C5_NodeProbesRemoteStore ==
    NodeWithMasterOnly =>
        /\ cfg.EtcdAddr.Host = cfg0.MasterAddr.Host
        /\ ~InSeq("etcd", launched)
        /\ gates <= 1
        /\ pc \in {"launchNode", "select"} => gates = 1 /\ probed
        /\ launched # << >> => gates = 1 /\ probed
        /\ pc = "returned" => err = "StoreUnreachable" /\ probed

C5_Witness ==
    /\ NodeWithMasterOnly /\ pc = "select"
    /\ probed /\ gates = 1 /\ launched = NodeLaunch
    /\ cfg.EtcdAddr.Host = "203.0.113.9"

\* C6: after negotiation with --master given and --etcd not, the store address
\* is the master's host on port 4001 with scheme http, whatever the master's
\* port and scheme, and the master address is unchanged.
C6_StoreFollowsExplicitMaster ==
    (Resolved /\ cfg0.MasterAddr.Provided /\ ~cfg0.EtcdAddr.Provided) =>
        /\ cfg.EtcdAddr.Host = cfg0.MasterAddr.Host
        /\ cfg.EtcdAddr.Port = 4001
        /\ cfg.EtcdAddr.Scheme = "http"
        /\ cfg.MasterAddr = cfg0.MasterAddr

C6_Witness ==
    /\ args = <<"master">> /\ pc = "select"
    /\ cfg0.MasterAddr.Value = <<"203.0.113.9", ":", "9443">>
    /\ ~cfg0.EtcdAddr.Provided
    /\ URLString(cfg.EtcdAddr) = <<"http", "://", "203.0.113.9", ":", "4001">>

NeitherGiven ==
    Resolved /\ ~cfg0.MasterAddr.Provided /\ ~cfg0.EtcdAddr.Provided

\* C7 as stated: with neither --master nor --etcd, both addresses get the one
\* discovered host, the master on https/8443 and the store on http/4001.
C7_BothOnDefaults ==
    NeitherGiven =>
        /\ discoveries = 1 /\ localIP \in LocalIPs
        /\ cfg.MasterAddr.Host = localIP /\ cfg.EtcdAddr.Host = localIP
        /\ cfg.MasterAddr.Scheme = "https" /\ cfg.MasterAddr.Port = 8443
        /\ cfg.EtcdAddr.Scheme = "http" /\ cfg.EtcdAddr.Port = 4001

\* C7 amended: with neither --master nor --etcd, both addresses get the one
\* discovered host (discovered once), the store on http/4001 and the master on
\* https/8443 when --listen was not given either.
C7_BothFromDiscoveredHost ==
    NeitherGiven =>
        /\ discoveries = 1 /\ localIP \in LocalIPs
        /\ cfg.MasterAddr.Host = localIP /\ cfg.EtcdAddr.Host = localIP
        /\ cfg.EtcdAddr.Scheme = "http" /\ cfg.EtcdAddr.Port = 4001
        /\ ~cfg0.BindAddr.Provided =>
              cfg.MasterAddr.Scheme = "https" /\ cfg.MasterAddr.Port = 8443

C7_Witness ==
    /\ args = << >> /\ pc = "select"
    /\ cfg0 = NewConfig
    /\ localIP = "10.0.0.5" /\ discoveries = 1
    /\ URLString(cfg.MasterAddr) = <<"https", "://", "10.0.0.5", ":", "8443">>
    /\ URLString(cfg.EtcdAddr) = <<"http", "://", "10.0.0.5", ":", "4001">>

\* C8: once defaultMasterAddress has succeeded, applying it again changes no
\* field of the configuration (the Provided marks included), discovers no
\* address and succeeds.
C8_NegotiationIdempotent ==
    [][(pc = "negotiate" /\ runs >= 1 /\ err = "") =>
          /\ cfg' = cfg
          /\ discoveries' = discoveries
          /\ err' = ""]_vars

C8_Witness ==
    /\ pc = "negotiate" /\ runs = 2 /\ err = ""
    /\ ~cfg0.MasterAddr.Provided /\ ~cfg0.EtcdAddr.Provided
    /\ discoveries = 1
    /\ cfg.MasterAddr.Provided /\ cfg.EtcdAddr.Provided

\* C9: a synthesized master address has the discovered host, and the port and
\* scheme of --listen if that was given, else 8443 and https.
C9_MasterFromListen ==
    (Resolved /\ ~cfg0.MasterAddr.Provided) =>
        /\ localIP \in LocalIPs /\ cfg.MasterAddr.Host = localIP
        /\ cfg.MasterAddr.Port =
              IF cfg0.BindAddr.Provided THEN cfg0.BindAddr.Port ELSE 8443
        /\ cfg.MasterAddr.Scheme =
              IF cfg0.BindAddr.Provided THEN cfg0.BindAddr.Scheme ELSE "https"

C9_Witness ==
    /\ pc = "select" /\ ~cfg0.MasterAddr.Provided
    /\ cfg0.BindAddr.Value = <<"http", "://", "0.0.0.0", ":", "8080">>
    /\ URLString(cfg.MasterAddr) = <<"http", "://", "192.168.1.20", ":", "8080">>

\* C10 as stated: a node-only run attempts no address discovery and leaves the
\* master and store addresses as they were.
C10_NodeSkipsNegotiation ==
    args = <<"node">> =>
        /\ discoveries = 0
        /\ cfg.MasterAddr = cfg0.MasterAddr
        /\ cfg.EtcdAddr = cfg0.EtcdAddr

\* C10 amended: negotiation runs in the node-only role too: discovery is
\* attempted exactly when --master was not given, an address that was given is
\* left as it was, and after a successful negotiation both addresses are marked
\* provided, a missing master address has the discovered host and a missing
\* store address has the master's host.
C10_NodeNegotiates ==
    (args = <<"node">> /\ pc # "start") =>
        /\ discoveries = IF cfg0.MasterAddr.Provided THEN 0 ELSE 1
        /\ cfg0.MasterAddr.Provided => cfg.MasterAddr = cfg0.MasterAddr
        /\ cfg0.EtcdAddr.Provided => cfg.EtcdAddr = cfg0.EtcdAddr
        /\ err = "AddressDiscoveryFailed" => cfg = cfg0
        /\ err # "AddressDiscoveryFailed" =>
              /\ cfg.MasterAddr.Provided /\ cfg.EtcdAddr.Provided
              /\ ~cfg0.MasterAddr.Provided => cfg.MasterAddr.Host = localIP
              /\ ~cfg0.EtcdAddr.Provided => cfg.EtcdAddr.Host = cfg.MasterAddr.Host

C10_Witness ==
    /\ args = <<"node">> /\ pc = "select"
    /\ discoveries = 1 /\ localIP = "10.0.0.5"
    /\ cfg.MasterAddr # cfg0.MasterAddr /\ cfg.EtcdAddr # cfg0.EtcdAddr
    /\ cfg.MasterAddr.Host = "10.0.0.5"

IssuedSet == {issued[k] : k \in 1..Len(issued)}

ReachedLaunch == pc = "launchMaster" \/ InSeq("RunAPI", launched)

\* C11: a master-role run on https that reaches component launch has minted
\* exactly master, openshift-client, openshift-deployer and admin, plus
\* kube-client iff --kubernetes was not given, each of them once.
C11_IssuedIdentities ==
    /\ Cardinality(IssuedSet) = Len(issued)
    /\ (startMaster /\ cfg.MasterAddr.Scheme = "https" /\ ReachedLaunch) =>
          IssuedSet = {"master", "openshift-client", "openshift-deployer", "admin"}
                        \cup (IF cfg0.KubernetesAddr.Provided THEN {} ELSE {"kube-client"})

C11_Witness ==
    /\ args = <<"master">> /\ pc = "select"
    /\ cfg.MasterAddr.Scheme = "https" /\ cfg0.KubernetesAddr.Provided
    /\ issued = <<"master", "openshift-client", "openshift-deployer", "admin">>

PastTrust == pc \in {"launchMaster", "nodeGate", "nodePoll", "launchNode", "select"}
                \/ InSeq("RunAPI", launched)

\* C12: trust bootstrap runs iff the negotiated master scheme is https: on any
\* other scheme no CA is loaded, nothing is minted, the root pool is nil and the
\* API client and the deployer client share one unauthenticated configuration
\* whose host is the master address; on https the CA is loaded and the pool set.
C12_TrustOnlyOnHttps ==
    (Resolved /\ startMaster) =>
        /\ cfg.MasterAddr.Scheme # "https" =>
              /\ ~caLoaded /\ issued = << >> /\ roots = "nil"
              /\ PastTrust =>
                    /\ osmaster.OSClientConfig = osmaster.DeployerOSClientConfig
                    /\ osmaster.OSClientConfig.Identity = ""
                    /\ osmaster.OSClientConfig.Host = URLString(cfg.MasterAddr)
        /\ (cfg.MasterAddr.Scheme = "https" /\ PastTrust) =>
              /\ caLoaded /\ roots = "pool"
              /\ osmaster.OSClientConfig.Identity = "openshift-client"
              /\ osmaster.DeployerOSClientConfig.Identity = "openshift-deployer"

C12_Witness ==
    /\ args = <<"master">> /\ pc = "select"
    /\ cfg.MasterAddr.Scheme = "http" /\ cfg.BindAddr.Scheme = "https"
    /\ ~caLoaded /\ issued = << >> /\ roots = "nil"
    /\ osmaster.OSClientConfig = osmaster.DeployerOSClientConfig
    /\ osmaster.OSClientConfig.Host = <<"http", "://", "10.0.0.5", ":", "8080">>

IsNodeComponent(x) ==
    x \in {"EnsureVolumeDir", "EnsureDocker", "RunProxy", "RunKubelet"}

IsMasterComponent(x) == x # "etcd" /\ ~IsNodeComponent(x)

IsController(x) ==
    x \in {"RunScheduler", "RunReplicationController", "RunEndpointController",
           "RunMinionController", "RunBuildController",
           "RunBuildImageChangeTriggerController", "RunDeploymentController",
           "RunDeploymentConfigController", "RunDeploymentConfigChangeController",
           "RunDeploymentImageChangeTriggerController"}

Before(x, y, s) ==
    \A k \in 1..Len(s) : s[k] = y => \E j \in 1..(k - 1) : s[j] = x

\* C13: the master role launches the API listener, then the four control loops
\* iff --kubernetes was not given, then event recording, then the asset
\* listener, then the six origin controllers in order; no controller precedes
\* the API listener.
C13_MasterLaunchOrder ==
    /\ (startMaster /\ SelectSeq(launched, IsMasterComponent) # << >>) =>
          SelectSeq(launched, IsMasterComponent) =
              <<"RunAPI">>
              \o (IF cfg0.KubernetesAddr.Provided THEN << >>
                  ELSE <<"RunScheduler", "RunReplicationController",
                         "RunEndpointController", "RunMinionController">>)
              \o <<"StartRecording", "RunAssetServer",
                   "RunBuildController", "RunBuildImageChangeTriggerController",
                   "RunDeploymentController", "RunDeploymentConfigController",
                   "RunDeploymentConfigChangeController",
                   "RunDeploymentImageChangeTriggerController">>
    /\ \A k \in 1..Len(launched) :
          IsController(launched[k]) => \E j \in 1..(k - 1) : launched[j] = "RunAPI"
    /\ ~startMaster => SelectSeq(launched, IsMasterComponent) = << >>

C13_Witness ==
    /\ args = << >> /\ pc = "select"
    /\ ~cfg0.KubernetesAddr.Provided
    /\ launched[1] = "etcd" /\ launched[2] = "RunAPI" /\ launched[3] = "RunScheduler"
    /\ launched[7] = "StartRecording" /\ launched[8] = "RunAssetServer"

\* C14: a run with the node role ensures the volume directory and the docker
\* handle, then starts the proxy, then the kubelet; the kubelet is never
\* started before the proxy.
C14_NodeLaunchOrder ==
    /\ (startNode /\ SelectSeq(launched, IsNodeComponent) # << >>) =>
          SelectSeq(launched, IsNodeComponent) =
              <<"EnsureVolumeDir", "EnsureDocker", "RunProxy", "RunKubelet">>
    /\ Before("RunProxy", "RunKubelet", launched)
    /\ Before("EnsureVolumeDir", "RunProxy", launched)
    /\ Before("EnsureDocker", "RunProxy", launched)
    /\ (startNode /\ pc = "select") => InSeq("RunKubelet", launched)

C14_Witness ==
    /\ args = <<"node">> /\ pc = "select"
    /\ launched = <<"EnsureVolumeDir", "EnsureDocker", "RunProxy", "RunKubelet">>

OnlyEtcdLaunched == \A k \in 1..Len(launched) : launched[k] = "etcd"

NothingBootstrapped ==
    ~caLoaded /\ issued = << >> /\ roots = "nil" /\ osmaster = NoMaster
        /\ OnlyEtcdLaunched

\* C15: in a master-role run the embedded store, when selected, is started
\* before the first readiness probe, and nothing of trust bootstrap and no
\* listener, controller or node component is started before getEtcdClient has
\* returned a client.
C15_StoreBeforeEverything ==
    startMaster =>
        /\ (~cfg0.EtcdAddr.Provided /\ (gates >= 1 \/ probed)) =>
              launched # << >> /\ launched[1] = "etcd"
        /\ cfg0.EtcdAddr.Provided => ~InSeq("etcd", launched)
        /\ gatesPassed = 0 => NothingBootstrapped
        /\ (pc = "returned" /\ err = "StoreUnreachable" /\ gates = 1) =>
              NothingBootstrapped

C15_Witness ==
    /\ args = << >> /\ pc = "masterPoll"
    /\ probed /\ i = 3 /\ gatesPassed = 0
    /\ launched = <<"etcd">> /\ ~caLoaded /\ issued = << >>

Rank(p) ==
    CASE p = "start" -> 0
      [] p = "prelude" -> 1
      [] p = "masterGate" -> 2
      [] p = "masterPoll" -> 3
      [] p = "storage" -> 4
      [] p = "trust" -> 5
      [] p = "launchMaster" -> 6
      [] p = "nodeGate" -> 7
      [] p = "nodePoll" -> 8
      [] p = "launchNode" -> 9
      [] p = "select" -> 10
      [] p = "returned" -> 11
      [] OTHER -> 12

\* C16 as stated: the store readiness gate is executed at most once per run
\* and never after trust bootstrap or the launch of a component has begun.
C16_GateOnceBeforeLaunch ==
    /\ gates <= 1
    /\ InPoll => NothingBootstrapped

\* C16 amended: start never goes back to an earlier position, and the store
\* readiness gate is executed once per role stage: once before trust bootstrap
\* in a master-role run, and once at the start of the node stage, which in the
\* all-in-one role comes after trust bootstrap and the master's launch.
C16_GatePerRoleStage ==
    /\ [][Rank(pc') >= Rank(pc)]_vars
    /\ [](/\ gates <= (IF startMaster THEN 1 ELSE 0) + (IF startNode THEN 1 ELSE 0)
          /\ pc = "masterPoll" => gates = 1 /\ NothingBootstrapped
          /\ (pc = "nodePoll" /\ startMaster) =>
                /\ gates = 2 /\ gatesPassed = 1
                /\ InSeq("RunDeploymentImageChangeTriggerController", launched)
                /\ ~InSeq("RunProxy", launched)
          /\ (pc = "nodePoll" /\ ~startMaster) => gates = 1 /\ launched = << >>
          /\ InSeq("RunKubelet", launched) =>
                gatesPassed = (IF startMaster THEN 2 ELSE 1))

C16_Witness ==
    /\ args = << >> /\ pc = "nodePoll"
    /\ gates = 2 /\ gatesPassed = 1 /\ i = 2
    /\ InSeq("RunAPI", launched) /\ InSeq("RunAssetServer", launched)

RequiredIdentities ==
    {"master", "openshift-client", "openshift-deployer", "admin"}
        \cup (IF startKube THEN {"kube-client"} ELSE {})

\* C17: every failure is fatal: start returns the error and takes no step
\* afterwards, a failure before the master's launch leaves nothing launched but
\* the embedded store, and on https the API and asset listeners are launched
\* only with the CA initialised and every required identity minted.
C17_FailFast ==
    /\ [][err = "" /\ (err' # "" => pc' = "returned")]_vars
    /\ [](err # "" <=> pc = "returned")
    /\ [](err \in {"InvalidArguments", "AddressDiscoveryFailed"} =>
             launched = << >> /\ gates = 0 /\ NothingBootstrapped)
    /\ [](err = "StorageSetupFailed" => NothingBootstrapped)
    /\ [](err = "TrustBootstrapFailed" =>
             OnlyEtcdLaunched /\ roots = "nil" /\ ~(RequiredIdentities \subseteq IssuedSet /\ caLoaded))
    /\ []((err = "StoreUnreachable" /\ gates = 1) => NothingBootstrapped)
    /\ []((cfg.MasterAddr.Scheme = "https"
             /\ (InSeq("RunAPI", launched) \/ InSeq("RunAssetServer", launched))) =>
             caLoaded /\ RequiredIdentities \subseteq IssuedSet /\ roots = "pool")

C17_Witness ==
    /\ args = << >> /\ pc = "returned" /\ err = "TrustBootstrapFailed"
    /\ caLoaded /\ issued = <<"master", "openshift-client">>
    /\ launched = <<"etcd">>

AllLaunched ==
    /\ Resolved /\ (startMaster \/ startNode)
    /\ startMaster => InSeq("RunDeploymentImageChangeTriggerController", launched)
    /\ startNode => InSeq("RunKubelet", launched)

\* C18: once every component of the role is launched start blocks in
\* `select {}`: it takes no further step and never returns; start returns only
\* with an error.
C18_ParksForever ==
    /\ [][pc # "select"]_vars
    /\ [](pc = "returned" => err # "")
    /\ [](AllLaunched <=> pc = "select")
    /\ [](pc = "select" => err = "")

C18_Witness ==
    /\ args = <<"master">> /\ pc = "select" /\ err = ""
    /\ InSeq("RunDeploymentImageChangeTriggerController", launched)
    /\ ~InSeq("RunKubelet", launched)

HasKubeLoops ==
    \E k \in 1..Len(launched) :
        launched[k] \in {"RunScheduler", "RunReplicationController",
                         "RunEndpointController", "RunMinionController"}

\* C19: after role resolution, a Kubernetes address that was not given equals
\* the master address as negotiated and the local Kubernetes is embedded; one
\* that was given is unchanged, the embedded control loops are never launched
\* and the master's Kubernetes client points at it.
C19_KubernetesAddress ==
    (Resolved /\ pc # "negotiate") =>
        /\ ~cfg0.KubernetesAddr.Provided =>
              /\ startKube
              /\ cfg.KubernetesAddr = cfg.MasterAddr
              /\ ~cfg0.MasterAddr.Provided =>
                    cfg.KubernetesAddr.Host = localIP /\ cfg.KubernetesAddr.Provided
              /\ osmaster # NoMaster =>
                    osmaster.KubeClientConfig.Host = URLString(cfg.MasterAddr)
        /\ cfg0.KubernetesAddr.Provided =>
              /\ ~startKube
              /\ cfg.KubernetesAddr = cfg0.KubernetesAddr
              /\ ~HasKubeLoops
              /\ osmaster # NoMaster =>
                    /\ osmaster.KubeClientConfig.Host = URLString(cfg0.KubernetesAddr)
                    /\ osmaster.KubernetesAddr = URLString(cfg0.KubernetesAddr)

C19_Witness ==
    /\ args = <<"node">> /\ pc = "select"
    /\ ~cfg0.KubernetesAddr.Provided /\ ~cfg0.MasterAddr.Provided
    /\ startKube
    /\ URLString(cfg.KubernetesAddr) = <<"https", "://", "192.168.1.20", ":", "8443">>
    /\ cfg.KubernetesAddr # cfg0.MasterAddr

\* C20: one run of the poll issues between 1 and 102 probes; it returns
\* StoreUnreachable exactly when the probe at loop index 101 fails; every
\* failed probe but that one is followed by one sleep, and no sleep follows the
\* last probe, so there are at most 101 sleeps.
C20_ProbeCount ==
    /\ [](InPoll => i <= 101 /\ probes = i /\ sleeps = i)
    /\ [](err = "StoreUnreachable" => i = 101 /\ probes = 102 /\ sleeps = 101)
    /\ [][(InPoll /\ probeErr' = "transport") =>
             /\ err' = "StoreUnreachable" <=> i = 101
             /\ i < 101 => InPoll' /\ probes' = probes + 1 /\ sleeps' = sleeps + 1
             /\ i = 101 => probes' = probes + 1 /\ sleeps' = sleeps]_vars
    /\ [][(InPoll /\ gatesPassed' = gatesPassed + 1) =>
             /\ probeErr' \in {"nil", "notFound"}
             /\ probes + 1 \in 1..102
             /\ sleeps = probes /\ sleeps <= 101
             /\ sleeps' <= sleeps]_vars

C20_Witness ==
    /\ args = <<"node">> /\ pc = "returned" /\ err = "StoreUnreachable"
    /\ gates = 1 /\ i = 101 /\ probes = 102 /\ sleeps = 101

====
